---- MODULE Spec2Model ----
(***************************************************************************)
(* Helmet-Detection-YoloV8: the inference command line (src/Inference.py)  *)
(* and the HTTP serving shell (src/Api.py) as one state machine.  One      *)
(* behaviour is one execution of one of the two programs.                  *)
(*                                                                         *)
(* File names are sequences of ASCII codes, so that str.upper(), the       *)
(* suffix match of Path.glob and Path.stem are computed as the code        *)
(* computes them.                                                          *)
(***************************************************************************)
EXTENDS Integers, Sequences, FiniteSets, TLC

VARIABLES
    program,         \* which executable runs: "none" | "inference" | "api"
    pc,              \* position of Inference.main
    mode,            \* args.type
    callStatus,      \* the function main dispatched to: idle|running|returned|raised
    exc,             \* kind of the exception in flight / caught ("none" if none)
    exitCode,        \* process exit status (-1 while running)
    saveDirCreated,  \* Path(save_dir).mkdir has run
    outFiles,        \* files written under save_dir (output names)
    sourceKind,      \* what args.source is: "unset" | "missing" | "ok"
    caseSensitive,   \* whether the platform's Path.glob matches case-sensitively
    listing,         \* directory content in the order the filesystem lists it
    image_files,     \* batch_inference: the enumerated work list
    idx,             \* batch_inference: number of work-list entries consumed
    results_list,    \* batch_inference: the report under construction
    spc,             \* position inside run_inference_video / run_inference_webcam
    cap,             \* capture handle: none|opened|unopened|released
    out,             \* encoder handle: none|created|released
    capReleases,     \* number of cap.release() calls
    outReleases,     \* number of out.release() calls
    frame_count,     \* run_inference_video: frame_count
    detection_count, \* run_inference_video: detection_count
    arrived,         \* detection counts of the frames read so far, in arrival order
    curDet,          \* len(results.boxes) of the frame in hand (-1: not detected yet)
    detected,        \* indices of the frames handed to model.predict, in call order
    written,         \* indices of the frames handed to out.write / cv2.imshow, in call order
    lastRead,        \* what the last cap.read() was: none|frame|eos|decode_error
    streamed,        \* the frame loop body has been entered
    endedBy,         \* why the frame loop was left: none|not_opened|read_false|stop_key
    returnedPath,    \* run_inference_video returned output_path
    avg_detections,  \* run_inference_video: avg_detections as a fraction <<num, den>>
                     \* (<<0, 0>>: not computed yet)
    calls,           \* the run_inference_image calls of a caller that uses it directly
    apiPc,           \* Api: "startup" | "serving"
    apiModel,        \* Api: the global `model` is not None
    responses,       \* Api: the responses sent so far, in order
    detectorCalls,   \* Api: number of model.predict calls
    tmpFiles         \* Api: number of temp files created by predict_annotated

mainVars   == <<pc, mode, callStatus, exc, exitCode, saveDirCreated, outFiles, sourceKind>>
batchVars  == <<caseSensitive, listing, image_files, idx, results_list>>
streamVars == <<spc, cap, out, capReleases, outReleases, frame_count, detection_count,
                arrived, curDet, detected, written, lastRead, streamed, endedBy,
                returnedPath>>
apiVars    == <<apiPc, apiModel, responses, detectorCalls, tmpFiles>>
itemVars   == <<avg_detections, calls>>
vars       == <<program, mainVars, batchVars, streamVars, apiVars, itemVars>>

----------------------------------------------------------------------------
(* Bounds of the model *)

\* most files in the input directory
MaxFiles == 3
\* most frames a source delivers in one run
MaxFrames == 3
\* most detections the detector returns for one image
MaxDet == 2
\* most HTTP requests in one behaviour
MaxRequests == 3
\* most direct calls of run_inference_image in one behaviour
MaxCalls == 2

----------------------------------------------------------------------------
(* Strings as sequences of ASCII codes *)

IsLower(c) == c \in 97..122
IsUpper(c) == c \in 65..90

\* str.upper(), per character
UpperChar(c) == IF IsLower(c) THEN c - 32 ELSE c
\* str.lower(), per character
LowerChar(c) == IF IsUpper(c) THEN c + 32 ELSE c

Upper(s) == [i \in 1..Len(s) |-> UpperChar(s[i])]
Lower(s) == [i \in 1..Len(s) |-> LowerChar(s[i])]

EndsWith(s, suf) ==
    /\ Len(suf) <= Len(s)
    /\ SubSeq(s, Len(s) - Len(suf) + 1, Len(s)) = suf

\* position of the last '.' (46) in s, 0 if there is none
LastDot(s) ==
    LET dots == {i \in 1..Len(s) : s[i] = 46}
    IN  IF dots = {} THEN 0 ELSE CHOOSE i \in dots : \A j \in dots : j <= i

\* Path(p).suffix: from the last dot on ('' for no dot or a leading dot only)
Suffix(s) == IF LastDot(s) <= 1 THEN <<>> ELSE SubSeq(s, LastDot(s), Len(s))

\* Path(p).stem: the name without its suffix
Stem(s) == IF LastDot(s) <= 1 THEN s ELSE SubSeq(s, 1, LastDot(s) - 1)

\* lexicographic order of two strings by code
RECURSIVE LexLess(_, _)
LexLess(s, t) ==
    IF t = <<>> THEN FALSE
    ELSE IF s = <<>> THEN TRUE
    ELSE IF Head(s) # Head(t) THEN Head(s) < Head(t)
    ELSE LexLess(Tail(s), Tail(t))

RECURSIVE SumSeq(_)
SumSeq(s) == IF s = <<>> THEN 0 ELSE Head(s) + SumSeq(Tail(s))

----------------------------------------------------------------------------
(* batch_inference: enumeration *)

\* image_extensions = ['.jpg', '.jpeg', '.png', '.bmp', '.webp']
image_extensions ==
    << <<46, 106, 112, 103>>,
       <<46, 106, 112, 101, 103>>,
       <<46, 112, 110, 103>>,
       <<46, 98, 109, 112>>,
       <<46, 119, 101, 98, 112>> >>

\* the file names a directory may hold:
\* b.jpg  a.jpg  a.png  c.JPG  b.Jpg  c.txt
FileUniverse ==
    { <<98, 46, 106, 112, 103>>,
      <<97, 46, 106, 112, 103>>,
      <<97, 46, 112, 110, 103>>,
      <<99, 46, 74, 80, 71>>,
      <<98, 46, 74, 112, 103>>,
      <<99, 46, 116, 120, 116>> }

\* the directory listings: every order of every set of at most MaxFiles names
Listings ==
    UNION { { s \in [1..n -> FileUniverse] : \A i, j \in 1..n : i # j => s[i] # s[j] }
            : n \in 0..MaxFiles }

\* whether Path.glob('*' + pat) yields the entry `name`
GlobMatch(name, pat, sensitive) ==
    IF sensitive THEN EndsWith(name, pat)
    ELSE EndsWith(Lower(name), Lower(pat))

\* list(input_path.glob('*' + pat)): the matching entries, in listing order
Glob(dir, pat, sensitive) == SelectSeq(dir, LAMBDA f : GlobMatch(f, pat, sensitive))

\* the loop of lines 132-134 over image_extensions[k..]
RECURSIVE Enumerate(_, _, _)
Enumerate(dir, k, sensitive) ==
    IF k > Len(image_extensions) THEN <<>>
    ELSE Glob(dir, image_extensions[k], sensitive)
         \o Glob(dir, Upper(image_extensions[k]), sensitive)
         \o Enumerate(dir, k + 1, sensitive)

\* "_detected.jpg"
DetectedJpg == <<95, 100, 101, 116, 101, 99, 116, 101, 100, 46, 106, 112, 103>>

\* output_name = f"{Path(image_path).stem}_detected.jpg"
OutputName(name) == Stem(name) \o DetectedJpg

\* len(results.boxes) for an image file: the detector is a function of the
\* image it is given; the files of FileUniverse hold 0..MaxDet objects
ImageBoxes(name) == name[1] % (MaxDet + 1)

----------------------------------------------------------------------------
Init ==
    /\ program = "none"
    /\ pc = "start"
    /\ mode = "unset"
    /\ callStatus = "idle"
    /\ exc = "none"
    /\ exitCode = -1
    /\ saveDirCreated = FALSE
    /\ outFiles = {}
    /\ sourceKind = "unset"
    /\ caseSensitive = TRUE
    /\ listing = <<>>
    /\ image_files = <<>>
    /\ idx = 0
    /\ results_list = <<>>
    /\ spc = "idle"
    /\ cap = "none"
    /\ out = "none"
    /\ capReleases = 0
    /\ outReleases = 0
    /\ frame_count = 0
    /\ detection_count = 0
    /\ arrived = <<>>
    /\ curDet = -1
    /\ detected = <<>>
    /\ written = <<>>
    /\ lastRead = "none"
    /\ streamed = FALSE
    /\ endedBy = "none"
    /\ returnedPath = FALSE
    /\ avg_detections = <<0, 0>>
    /\ calls = <<>>
    /\ apiPc = "startup"
    /\ apiModel = FALSE
    /\ responses = <<>>
    /\ detectorCalls = 0
    /\ tmpFiles = 0

----------------------------------------------------------------------------
(* Inference.main *)

Modes == {"image", "video", "webcam", "batch"}

\* lines 184-190, no argument given: the usage text is printed, main is not called
Usage ==
    /\ program = "none"
    /\ program' = "inference"
    /\ pc' = "exit"
    /\ exitCode' = 0
    /\ UNCHANGED <<mode, callStatus, exc, saveDirCreated, outFiles, sourceKind>>
    /\ UNCHANGED <<batchVars, streamVars, apiVars>>
    /\ UNCHANGED itemVars

\* lines 156-162: parse_args
ParseArgs ==
    /\ program = "none"
    /\ program' = "inference"
    /\ \E m \in Modes : mode' = m
    /\ pc' = "load"
    /\ UNCHANGED <<callStatus, exc, exitCode, saveDirCreated, outFiles, sourceKind>>
    /\ UNCHANGED <<batchVars, streamVars, apiVars>>
    /\ UNCHANGED itemVars

\* lines 165-166 with find_latest_model (lines 8-19): what can go wrong
\* finding and loading the model
LoadFailures == {"NoModelsDir", "NoTrainedModels", "ModelLoadError"}

LoadModel ==
    /\ program = "inference" /\ pc = "load"
    /\ \/ /\ pc' = "dispatch"
          /\ exc' = "none"
       \/ /\ \E e \in LoadFailures : exc' = e
          /\ pc' = "except"
    /\ UNCHANGED <<program, mode, callStatus, exitCode, saveDirCreated, outFiles, sourceKind>>
    /\ UNCHANGED <<batchVars, streamVars, apiVars>>
    /\ UNCHANGED itemVars

\* lines 180-181: except Exception as e: print(...); main returns, the
\* interpreter exits with status 0
Except ==
    /\ program = "inference" /\ pc = "except"
    /\ pc' = "exit"
    /\ exitCode' = 0
    /\ UNCHANGED <<program, mode, callStatus, exc, saveDirCreated, outFiles, sourceKind>>
    /\ UNCHANGED <<batchVars, streamVars, apiVars>>
    /\ UNCHANGED itemVars

\* the dispatched function is over: it returned (main falls off the try
\* block and exits 0) or it raised (the except clause is entered)
AfterCall ==
    /\ program = "inference" /\ pc = "call"
    /\ callStatus \in {"returned", "raised"}
    /\ IF callStatus = "returned"
       THEN pc' = "exit" /\ exitCode' = 0
       ELSE pc' = "except" /\ exitCode' = exitCode
    /\ UNCHANGED <<program, mode, callStatus, exc, saveDirCreated, outFiles, sourceKind>>
    /\ UNCHANGED <<batchVars, streamVars, apiVars>>
    /\ UNCHANGED itemVars

----------------------------------------------------------------------------
(* run_inference_image, as called by main in image mode *)

\* what model.predict / cv2.imwrite make of one image file
ItemOutcomes == {"ok", "write_false", "SourceNotFound", "DecodeError", "DetectorError", "WriteError"}
ItemRaises == {"SourceNotFound", "DecodeError", "DetectorError", "WriteError"}

\* a writer that never overwrites: a taken name gets "_1" appended
FilesAfterItemNoOverwrite(files, name, outcome) ==
    IF outcome # "ok" THEN files
    ELSE IF OutputName(name) \in files THEN files \cup {OutputName(name) \o <<95, 49>>}
    ELSE files \cup {OutputName(name)}

\* lines 22-44 on one path: the files under save_dir afterwards.  mkdir runs
\* first; the file is written unless predict/plot/imwrite raised or imwrite
\* returned False (its result is ignored)
FilesAfterItem(files, name, outcome) ==
    IF outcome = "ok" THEN files \cup {OutputName(name)} ELSE files

\* the name main passes in image mode: img.jpg stands for any source
SourceName == <<105, 109, 103, 46, 106, 112, 103>>

RunImage ==
    /\ program = "inference" /\ pc = "dispatch" /\ mode = "image"
    /\ \E o \in ItemOutcomes :
         /\ sourceKind' = IF o = "SourceNotFound" THEN "missing" ELSE "ok"
         /\ saveDirCreated' = TRUE
         /\ outFiles' = FilesAfterItem(outFiles, SourceName, o)
         /\ IF o \in ItemRaises
            THEN callStatus' = "raised" /\ exc' = o
            ELSE callStatus' = "returned" /\ exc' = exc
    /\ pc' = "call"
    /\ UNCHANGED <<program, mode, exitCode>>
    /\ UNCHANGED <<batchVars, streamVars, apiVars>>
    /\ UNCHANGED itemVars

\* run_inference_image (lines 22-44) called directly, any number of times, on
\* any file and always with the same save_dir: each call is recorded with
\* what it returned and the files under save_dir after it
P_Call ==
    /\ program \in {"none", "library"}
    /\ Len(calls) < MaxCalls
    /\ program' = "library"
    /\ saveDirCreated' = TRUE
    /\ \E src \in FileUniverse, o \in ItemOutcomes :
         /\ outFiles' = FilesAfterItem(outFiles, src, o)
         /\ calls' = Append(calls,
                [source |-> src, outcome |-> o,
                 output_path |-> IF o \in ItemRaises THEN <<>> ELSE OutputName(src),
                 files |-> outFiles'])
    /\ UNCHANGED <<pc, mode, callStatus, exc, exitCode, sourceKind, avg_detections>>
    /\ UNCHANGED <<batchVars, streamVars, apiVars>>

----------------------------------------------------------------------------
(* batch_inference *)

\* lines 124-139: existence check, enumeration, emptiness check
BatchStart ==
    /\ program = "inference" /\ pc = "dispatch" /\ mode = "batch"
    /\ pc' = "call"
    /\ \/ /\ sourceKind' = "missing"
          /\ callStatus' = "raised" /\ exc' = "DirectoryNotFound"
          /\ UNCHANGED batchVars
       \/ /\ sourceKind' = "ok"
          /\ \E d \in Listings, s \in BOOLEAN :
               /\ listing' = d
               /\ caseSensitive' = s
               /\ image_files' = Enumerate(d, 1, s)
          /\ IF image_files' = <<>>
             THEN callStatus' = "raised" /\ exc' = "NoImagesFound"
             ELSE callStatus' = "running" /\ exc' = exc
          /\ UNCHANGED <<idx, results_list>>
    /\ UNCHANGED <<program, mode, exitCode, saveDirCreated, outFiles>>
    /\ UNCHANGED <<streamVars, apiVars>>
    /\ UNCHANGED itemVars

\* lines 141-149: one iteration of the loop; an exception of
\* run_inference_image leaves the loop and the function
BatchItem ==
    /\ program = "inference" /\ pc = "call" /\ mode = "batch"
    /\ callStatus = "running"
    /\ idx < Len(image_files)
    /\ LET image_path == image_files[idx + 1] IN
       \E o \in ItemOutcomes \ {"SourceNotFound"} :
         /\ saveDirCreated' = TRUE
         /\ outFiles' = FilesAfterItem(outFiles, image_path, o)
         /\ IF o \in ItemRaises
            THEN /\ callStatus' = "raised" /\ exc' = o
                 /\ UNCHANGED <<idx, results_list>>
            ELSE /\ results_list' = Append(results_list,
                        [image |-> image_path, detections |-> ImageBoxes(image_path),
                         output |-> OutputName(image_path)])
                 /\ idx' = idx + 1
                 /\ UNCHANGED <<callStatus, exc>>
    /\ UNCHANGED <<program, pc, mode, exitCode, sourceKind>>
    /\ UNCHANGED <<caseSensitive, listing, image_files>>
    /\ UNCHANGED <<streamVars, apiVars>>
    /\ UNCHANGED itemVars

\* lines 151-152: return results_list
BatchReturn ==
    /\ program = "inference" /\ pc = "call" /\ mode = "batch"
    /\ callStatus = "running"
    /\ idx = Len(image_files)
    /\ callStatus' = "returned"
    /\ UNCHANGED <<program, pc, mode, exc, exitCode, saveDirCreated, outFiles, sourceKind>>
    /\ UNCHANGED <<batchVars, streamVars, apiVars>>
    /\ UNCHANGED itemVars

----------------------------------------------------------------------------
(* run_inference_video *)

\* vid.mp4 stands for the video path; "_detected.mp4"
VideoName == <<118, 105, 100, 46, 109, 112, 52>>
DetectedMp4 == <<95, 100, 101, 116, 101, 99, 116, 101, 100, 46, 109, 112, 52>>

\* output_name = f"{Path(video_path).stem}_detected.mp4"
VideoOutputName(name) == Stem(name) \o DetectedMp4

\* an exception leaves the frame loop and the function at once: no line
\* after the raising one runs
Raise(kind) ==
    /\ callStatus' = "raised"
    /\ exc' = kind
    /\ spc' = "raised"

\* lines 48-64: mkdir, VideoCapture, VideoWriter, counters.  VideoCapture
\* does not raise on a path it cannot open; the writer is constructed either
\* way (whether a writer of frame size 0x0 leaves a file behind is the
\* backend's choice)
V_Open ==
    /\ program = "inference" /\ pc = "dispatch" /\ mode = "video"
    /\ pc' = "call"
    /\ callStatus' = "running"
    /\ saveDirCreated' = TRUE
    /\ \/ /\ sourceKind' = "ok"
          /\ cap' = "opened"
          /\ outFiles' = outFiles \cup {VideoOutputName(VideoName)}
       \/ /\ sourceKind' = "missing"
          /\ cap' = "unopened"
          /\ \E leftBehind \in BOOLEAN :
               outFiles' = IF leftBehind THEN outFiles \cup {VideoOutputName(VideoName)}
                           ELSE outFiles
    /\ out' = "created"
    /\ frame_count' = 0
    /\ detection_count' = 0
    /\ spc' = "loop"
    /\ UNCHANGED <<program, mode, exc, exitCode>>
    /\ UNCHANGED <<capReleases, outReleases, arrived, curDet, detected, written,
                   lastRead, streamed, endedBy, returnedPath>>
    /\ UNCHANGED <<batchVars, apiVars>>
    /\ UNCHANGED itemVars

\* line 66: while cap.isOpened()
V_LoopTest ==
    /\ program = "inference" /\ mode = "video" /\ spc = "loop"
    /\ IF cap = "opened"
       THEN spc' = "read" /\ streamed' = TRUE /\ endedBy' = endedBy
       ELSE spc' = "finish" /\ streamed' = streamed /\ endedBy' = "not_opened"
    /\ UNCHANGED <<program, mainVars, batchVars, apiVars>>
    /\ UNCHANGED <<cap, out, capReleases, outReleases, frame_count, detection_count,
                   arrived, curDet, detected, written, lastRead, returnedPath>>
    /\ UNCHANGED itemVars

\* lines 67-69: ret, frame = cap.read(); if not ret: break.  ret is False at
\* the end of the stream and on a frame that cannot be decoded alike
V_Read ==
    /\ program = "inference" /\ mode = "video" /\ spc = "read"
    /\ \/ /\ Len(arrived) < MaxFrames
          /\ \E d \in 0..MaxDet : arrived' = Append(arrived, d)
          /\ lastRead' = "frame"
          /\ spc' = "predict"
          /\ endedBy' = endedBy
       \/ /\ \E k \in {"eos", "decode_error"} : lastRead' = k
          /\ arrived' = arrived
          /\ spc' = "finish"
          /\ endedBy' = "read_false"
    /\ UNCHANGED <<program, mainVars, batchVars, apiVars>>
    /\ UNCHANGED <<cap, out, capReleases, outReleases, frame_count, detection_count,
                   curDet, detected, written, streamed, returnedPath>>
    /\ UNCHANGED itemVars

\* lines 71-76: results = model.predict(source=frame, ...)[0]
V_Predict ==
    /\ program = "inference" /\ mode = "video" /\ spc = "predict"
    /\ \/ /\ detected' = Append(detected, Len(arrived))
          /\ curDet' = arrived[Len(arrived)]
          /\ spc' = "plot"
          /\ UNCHANGED <<callStatus, exc>>
       \/ /\ Raise("DetectorError")
          /\ UNCHANGED <<detected, curDet>>
    /\ UNCHANGED <<program, pc, mode, exitCode, saveDirCreated, outFiles, sourceKind>>
    /\ UNCHANGED <<batchVars, apiVars>>
    /\ UNCHANGED <<cap, out, capReleases, outReleases, frame_count, detection_count,
                   arrived, written, lastRead, streamed, endedBy, returnedPath>>
    /\ UNCHANGED itemVars

\* line 78: annotated_frame = results.plot()
V_Plot ==
    /\ program = "inference" /\ mode = "video" /\ spc = "plot"
    /\ \/ /\ spc' = "write"
          /\ UNCHANGED <<callStatus, exc>>
       \/ Raise("RenderError")
    /\ UNCHANGED <<program, pc, mode, exitCode, saveDirCreated, outFiles, sourceKind>>
    /\ UNCHANGED <<batchVars, apiVars>>
    /\ UNCHANGED <<cap, out, capReleases, outReleases, frame_count, detection_count,
                   arrived, curDet, detected, written, lastRead, streamed, endedBy,
                   returnedPath>>
    /\ UNCHANGED itemVars

\* line 79: out.write(annotated_frame)
V_Write ==
    /\ program = "inference" /\ mode = "video" /\ spc = "write"
    /\ \/ /\ written' = Append(written, Len(arrived))
          /\ spc' = "count"
          /\ UNCHANGED <<callStatus, exc>>
       \/ /\ Raise("EncoderError")
          /\ UNCHANGED written
    /\ UNCHANGED <<program, pc, mode, exitCode, saveDirCreated, outFiles, sourceKind>>
    /\ UNCHANGED <<batchVars, apiVars>>
    /\ UNCHANGED <<cap, out, capReleases, outReleases, frame_count, detection_count,
                   arrived, curDet, detected, lastRead, streamed, endedBy, returnedPath>>
    /\ UNCHANGED itemVars

\* a running total that is overwritten instead of added to
AccumulateOverwrite(total, boxes) == boxes

\* line 81: detection_count += len(results.boxes)
Accumulate(total, boxes) == total + boxes

\* lines 81-82: detection_count += len(results.boxes); frame_count += 1
V_Count ==
    /\ program = "inference" /\ mode = "video" /\ spc = "count"
    /\ detection_count' = Accumulate(detection_count, curDet)
    /\ frame_count' = frame_count + 1
    /\ curDet' = -1
    /\ spc' = "loop"
    /\ UNCHANGED <<program, mainVars, batchVars, apiVars>>
    /\ UNCHANGED <<cap, out, capReleases, outReleases, arrived, detected, written,
                   lastRead, streamed, endedBy, returnedPath>>
    /\ UNCHANGED itemVars

\* the quotient taken with floor division (//) instead of true division
AverageFloor(total, n) == IF n # 0 THEN <<total \div n, 1>> ELSE <<0, 1>>

\* line 87: avg_detections = detection_count / frame_count if frame_count else 0
\* the quotient is kept as the fraction total/n, 0 as 0/1
Average(total, n) == IF n # 0 THEN <<total, n>> ELSE <<0, 1>>

\* lines 84-93: cap.release(); out.release(); summary; return output_path
V_Finish ==
    /\ program = "inference" /\ mode = "video" /\ spc = "finish"
    /\ cap' = "released"
    /\ capReleases' = capReleases + 1
    /\ out' = "released"
    /\ outReleases' = outReleases + 1
    /\ avg_detections' = Average(detection_count, frame_count)
    /\ returnedPath' = TRUE
    /\ callStatus' = "returned"
    /\ spc' = "done"
    /\ UNCHANGED <<program, pc, mode, exc, exitCode, saveDirCreated, outFiles, sourceKind>>
    /\ UNCHANGED <<batchVars, apiVars>>
    /\ UNCHANGED <<frame_count, detection_count, arrived, curDet, detected, written,
                   lastRead, streamed, endedBy>>
    /\ UNCHANGED calls

----------------------------------------------------------------------------
(* run_inference_webcam *)

\* lines 97-99: cap = cv2.VideoCapture(0); no directory, no encoder
W_Open ==
    /\ program = "inference" /\ pc = "dispatch" /\ mode = "webcam"
    /\ pc' = "call"
    /\ callStatus' = "running"
    /\ \/ sourceKind' = "ok" /\ cap' = "opened"
       \/ sourceKind' = "missing" /\ cap' = "unopened"
    /\ spc' = "read"
    /\ streamed' = TRUE
    /\ UNCHANGED <<program, mode, exc, exitCode, saveDirCreated, outFiles>>
    /\ UNCHANGED <<out, capReleases, outReleases, frame_count, detection_count,
                   arrived, curDet, detected, written, lastRead, endedBy, returnedPath>>
    /\ UNCHANGED <<batchVars, apiVars>>
    /\ UNCHANGED itemVars

\* lines 101-104: while True: ret, frame = cap.read(); if not ret: break
W_Read ==
    /\ program = "inference" /\ mode = "webcam" /\ spc = "read"
    /\ \/ /\ cap = "opened"
          /\ Len(arrived) < MaxFrames
          /\ \E d \in 0..MaxDet : arrived' = Append(arrived, d)
          /\ lastRead' = "frame"
          /\ spc' = "predict"
          /\ endedBy' = endedBy
       \/ /\ lastRead' = "no_frame"
          /\ arrived' = arrived
          /\ spc' = "finish"
          /\ endedBy' = "read_false"
    /\ UNCHANGED <<program, mainVars, batchVars, apiVars>>
    /\ UNCHANGED <<cap, out, capReleases, outReleases, frame_count, detection_count,
                   curDet, detected, written, streamed, returnedPath>>
    /\ UNCHANGED itemVars

\* lines 106-111: results = model.predict(source=frame, ...)[0]
W_Predict ==
    /\ program = "inference" /\ mode = "webcam" /\ spc = "predict"
    /\ \/ /\ detected' = Append(detected, Len(arrived))
          /\ curDet' = arrived[Len(arrived)]
          /\ spc' = "plot"
          /\ UNCHANGED <<callStatus, exc>>
       \/ /\ Raise("DetectorError")
          /\ UNCHANGED <<detected, curDet>>
    /\ UNCHANGED <<program, pc, mode, exitCode, saveDirCreated, outFiles, sourceKind>>
    /\ UNCHANGED <<batchVars, apiVars>>
    /\ UNCHANGED <<cap, out, capReleases, outReleases, frame_count, detection_count,
                   arrived, written, lastRead, streamed, endedBy, returnedPath>>
    /\ UNCHANGED itemVars

\* lines 113-114: annotated_frame = results.plot(); cv2.imshow(...)
W_Show ==
    /\ program = "inference" /\ mode = "webcam" /\ spc = "plot"
    /\ \/ /\ written' = Append(written, Len(arrived))
          /\ spc' = "waitkey"
          /\ UNCHANGED <<callStatus, exc>>
       \/ /\ Raise("RenderError")
          /\ UNCHANGED written
    /\ UNCHANGED <<program, pc, mode, exitCode, saveDirCreated, outFiles, sourceKind>>
    /\ UNCHANGED <<batchVars, apiVars>>
    /\ UNCHANGED <<cap, out, capReleases, outReleases, frame_count, detection_count,
                   arrived, curDet, detected, lastRead, streamed, endedBy, returnedPath>>
    /\ UNCHANGED itemVars

\* lines 116-117: if cv2.waitKey(1) & 0xFF == ord('q'): break
W_WaitKey ==
    /\ program = "inference" /\ mode = "webcam" /\ spc = "waitkey"
    /\ \E q \in BOOLEAN :
         IF q THEN spc' = "finish" /\ endedBy' = "stop_key"
              ELSE spc' = "read" /\ endedBy' = endedBy
    /\ curDet' = -1
    /\ UNCHANGED <<program, mainVars, batchVars, apiVars>>
    /\ UNCHANGED <<cap, out, capReleases, outReleases, frame_count, detection_count,
                   arrived, detected, written, lastRead, streamed, returnedPath>>
    /\ UNCHANGED itemVars

\* lines 119-120: cap.release(); cv2.destroyAllWindows(); returns None
W_Finish ==
    /\ program = "inference" /\ mode = "webcam" /\ spc = "finish"
    /\ cap' = "released"
    /\ capReleases' = capReleases + 1
    /\ callStatus' = "returned"
    /\ spc' = "done"
    /\ UNCHANGED <<program, pc, mode, exc, exitCode, saveDirCreated, outFiles, sourceKind>>
    /\ UNCHANGED <<batchVars, apiVars>>
    /\ UNCHANGED <<out, outReleases, frame_count, detection_count, arrived, curDet,
                   detected, written, lastRead, streamed, endedBy, returnedPath>>
    /\ UNCHANGED itemVars

----------------------------------------------------------------------------
(* Api.py *)

Payloads == {"image", "garbage"}

\* the fields of PredictionResponse (lines 82-87), as serialised
PredictionResponseFields == {"success", "detections", "image_size", "inference_time", "message"}
\* the fields of DetectionResult (lines 76-79)
DetectionResultFields == {"class_name", "confidence", "bbox"}

\* the two checks in the other order: the payload is decoded before the
\* model is looked at
GateDecodeFirst(loaded, payload) ==
    IF payload = "garbage" THEN 400
    ELSE IF ~loaded THEN 503
    ELSE 0

\* lines 126-133 (and 170-177): the status the handler answers with before
\* it calls the detector, 0 if it goes on to the detector.  `payload` is
\* decoded (cv2.imdecode) only when a model is loaded
Gate(loaded, payload) ==
    IF ~loaded THEN 503
    ELSE IF payload = "garbage" THEN 400
    ELSE 0

\* lifespan (lines 50-57) calling load_model (lines 32-47): any exception of
\* load_model is printed and the server starts with model = None
A_Startup ==
    /\ program = "none"
    /\ program' = "api"
    /\ \E ok \in BOOLEAN : apiModel' = ok
    /\ apiPc' = "serving"
    /\ UNCHANGED <<responses, detectorCalls, tmpFiles>>
    /\ UNCHANGED <<mainVars, batchVars, streamVars>>
    /\ UNCHANGED itemVars

\* POST /predict, lines 120-161
A_Predict ==
    /\ program = "api" /\ apiPc = "serving"
    /\ Len(responses) < MaxRequests
    /\ \E payload \in Payloads :
         LET g == Gate(apiModel, payload) IN
         IF g # 0
         THEN /\ responses' = Append(responses,
                     [endpoint |-> "/predict", payload |-> payload, status |-> g,
                      calls |-> 0, fields |-> {"detail"}, boxes |-> 0,
                      itemFields |-> {}])
              /\ UNCHANGED detectorCalls
         ELSE /\ detectorCalls' = detectorCalls + 1
              /\ \/ \E d \in 0..MaxDet :
                      responses' = Append(responses,
                        [endpoint |-> "/predict", payload |-> payload, status |-> 200,
                         calls |-> 1, fields |-> PredictionResponseFields, boxes |-> d,
                         itemFields |-> IF d = 0 THEN {} ELSE DetectionResultFields])
                 \/ responses' = Append(responses,
                        [endpoint |-> "/predict", payload |-> payload, status |-> 500,
                         calls |-> 1, fields |-> {}, boxes |-> 0, itemFields |-> {}])
    /\ UNCHANGED <<program, apiPc, apiModel, tmpFiles>>
    /\ UNCHANGED <<mainVars, batchVars, streamVars>>
    /\ UNCHANGED itemVars

\* POST /predict/annotated, lines 164-192
A_PredictAnnotated ==
    /\ program = "api" /\ apiPc = "serving"
    /\ Len(responses) < MaxRequests
    /\ \E payload \in Payloads :
         LET g == Gate(apiModel, payload) IN
         IF g # 0
         THEN /\ responses' = Append(responses,
                     [endpoint |-> "/predict/annotated", payload |-> payload, status |-> g,
                      calls |-> 0, fields |-> {"detail"}, boxes |-> 0,
                      itemFields |-> {}])
              /\ UNCHANGED <<detectorCalls, tmpFiles>>
         ELSE /\ detectorCalls' = detectorCalls + 1
              /\ \/ /\ responses' = Append(responses,
                        [endpoint |-> "/predict/annotated", payload |-> payload,
                         status |-> 200, calls |-> 1, fields |-> {}, boxes |-> 0,
                         itemFields |-> {}])
                    /\ tmpFiles' = tmpFiles + 1
                 \/ /\ responses' = Append(responses,
                        [endpoint |-> "/predict/annotated", payload |-> payload,
                         status |-> 500, calls |-> 1, fields |-> {}, boxes |-> 0,
                         itemFields |-> {}])
                    /\ UNCHANGED tmpFiles
    /\ UNCHANGED <<program, apiPc, apiModel>>
    /\ UNCHANGED <<mainVars, batchVars, streamVars>>
    /\ UNCHANGED itemVars

----------------------------------------------------------------------------
Next ==
    \/ Usage
    \/ ParseArgs
    \/ LoadModel
    \/ Except
    \/ AfterCall
    \/ RunImage
    \/ BatchStart
    \/ BatchItem
    \/ BatchReturn
    \/ V_Open
    \/ V_LoopTest
    \/ V_Read
    \/ V_Predict
    \/ V_Plot
    \/ V_Write
    \/ V_Count
    \/ V_Finish
    \/ W_Open
    \/ W_Read
    \/ W_Predict
    \/ W_Show
    \/ W_WaitKey
    \/ W_Finish
    \/ A_Startup
    \/ A_Predict
    \/ A_PredictAnnotated

Spec == Init /\ [][Next]_vars

\* a caller that uses run_inference_image as a library function
ItemNext == P_Call

ItemSpec == Init /\ [][ItemNext]_vars

----------------------------------------------------------------------------
(* Vocabulary of the properties *)

Range(s) == {s[i] : i \in DOMAIN s}
Count(s, x) == Cardinality({i \in DOMAIN s : s[i] = x})

\* a file is eligible when its extension, compared case-insensitively, is
\* on the allow-list
Eligible(name) == \E k \in DOMAIN image_extensions : Lower(Suffix(name)) = image_extensions[k]

\* s is in lexicographic order
Sorted(s) == \A i, j \in DOMAIN s : i < j => ~LexLess(s[j], s[i])

ReportNames == [i \in DOMAIN results_list |-> results_list[i].image]

CallOver == callStatus \in {"returned", "raised"}
InStreamRun == mode \in {"video", "webcam"} /\ callStatus # "idle"

\* the failures the command line has to report through its exit status
SetupFailures ==
    {"SourceNotFound", "DirectoryNotFound", "NoImagesFound",
     "NoModelsDir", "NoTrainedModels", "ModelLoadError"}

----------------------------------------------------------------------------
(* Properties *)

\* C1: once batch_inference has enumerated a non-empty work list, the call
\* ends by returning a report with one record per enumerated file; a
\* failure on one file is recorded and no exception escapes the call.
C1_ItemFailureIsRecorded ==
    (mode = "batch" /\ CallOver /\ sourceKind = "ok" /\ image_files # <<>>)
        => (callStatus = "returned" /\ Len(results_list) = Len(image_files))

\* C2: every file of the directory whose extension is on the allow-list,
\* compared case-insensitively, is in the enumerated work list exactly once,
\* and in the returned report exactly once.  (Stated where Path.glob matches
\* case-sensitively; where it does not, a file is enumerated twice.)
C2_EveryEligibleFileOnce ==
    (mode = "batch" /\ sourceKind = "ok" /\ pc = "call" /\ caseSensitive)
        => \A f \in Range(listing) :
              Eligible(f) =>
                 /\ Count(image_files, f) = 1
                 /\ callStatus = "returned" => Count(ReportNames, f) = 1

\* C3: when a stream run is over, however it ended, the capture and the
\* encoder it opened have each been released exactly once and none is open.
C3_HandlesReleasedOnEveryExit ==
    (InStreamRun /\ CallOver)
        => /\ cap # "opened" /\ capReleases = 1
           /\ out # "created"
           /\ out # "none" => outReleases = 1

\* C4: with a source that does not exist or cannot be opened, image, video
\* and batch mode fail before the output directory, an output file or the
\* encoder is created; a video run never streams and never returns an
\* output path.
C4_MissingSourceFailsFirst ==
    (mode \in {"image", "video", "batch"} /\ sourceKind = "missing")
        => /\ ~saveDirCreated
           /\ outFiles = {}
           /\ out = "none"
           /\ ~streamed
           /\ ~returnedPath
           /\ CallOver => callStatus = "raised"

\* C5: a video run whose frame read fails to decode after at least one
\* frame was processed ends with an error: it does not return an output
\* path as a completed run does.
C5_MidStreamDecodeErrorFails ==
    (mode = "video" /\ CallOver /\ lastRead = "decode_error" /\ frame_count >= 1)
        => (callStatus = "raised" /\ ~returnedPath)

\* C6: a live-camera run that returns normally was ended by the stop key,
\* checked after a frame was fully processed; never by a camera read that
\* returned no frame.
C6_WebcamCompletesOnlyOnStop ==
    (mode = "webcam" /\ callStatus = "returned")
        => (endedBy = "stop_key" /\ lastRead = "frame")

C8_ExitStatusReportsFailure ==
    pc = "exit"
        => ((exitCode # 0) <=> (exc \in SetupFailures \/ sourceKind = "missing"))

\* C9: the work list and the report of a batch are in lexicographic order
\* of file name, whatever the extensions.  (Stated where Path.glob matches
\* case-sensitively, so that no name is enumerated twice.)
C9_BatchInFilenameOrder ==
    (mode = "batch" /\ caseSensitive) => (Sorted(image_files) /\ Sorted(ReportNames))

\* C10: in a video run the frames go to the detector and to the encoder in
\* arrival order, each once, and a frame is read only when every earlier
\* frame has been written; at every frame boundary frame_count is the
\* number of frames written and detection_count the sum of their detections.
C10_FramesInOrderAndCounted ==
    mode = "video"
        => /\ \A i \in DOMAIN detected : detected[i] = i
           /\ \A i \in DOMAIN written : written[i] = i
           /\ Len(arrived) - Len(written) <= 1
           /\ spc \in {"loop", "read", "finish", "done"}
                 => /\ Len(written) = Len(arrived)
                    /\ detected = written
                    /\ frame_count = Len(written)
                    /\ detection_count = SumSeq(arrived)

\* C10 happens: a frame boundary after two frames, both with detections
C10_Witness ==
    /\ mode = "video" /\ spc = "loop"
    /\ frame_count = 2 /\ written = <<1, 2>>
    /\ arrived[1] > 0 /\ arrived[2] > 0
    /\ detection_count = arrived[1] + arrived[2]

\* C11: when a video run has completed, avg_detections is the quotient
\* detection_count / frame_count if frames were processed, and 0 if none
\* was (the run still completes: nothing is divided by zero).
C11_AverageIsQuotientOrZero ==
    (mode = "video" /\ callStatus = "returned")
        => /\ avg_detections[2] > 0
           /\ frame_count > 0
                 => avg_detections[1] * frame_count = detection_count * avg_detections[2]
           /\ frame_count = 0 => avg_detections[1] = 0

\* C11 happens: a completed run of two frames with three detections, whose
\* average is not a whole number
C11_Witness ==
    /\ mode = "video" /\ callStatus = "returned"
    /\ frame_count = 2 /\ detection_count = 3
    /\ avg_detections = <<3, 2>>

\* C12: two successive calls of run_inference_image on the same source with
\* the same output directory return the same output_path, which is the
\* source's stem followed by "_detected.jpg" (sources of equal stem get
\* equal paths); the second call overwrites the file the first one wrote,
\* so the files in the directory are the same after it.
C12_SameOutputPathOverwritten ==
    /\ \A i, j \in DOMAIN calls :
          (calls[i].outcome \notin ItemRaises /\ calls[j].outcome \notin ItemRaises
             /\ Stem(calls[i].source) = Stem(calls[j].source))
              => /\ calls[i].output_path = calls[j].output_path
                 /\ calls[i].output_path = Stem(calls[i].source) \o DetectedJpg
    /\ \A i \in DOMAIN calls :
          (i + 1 \in DOMAIN calls /\ calls[i].source = calls[i + 1].source
             /\ calls[i].outcome = "ok" /\ calls[i + 1].outcome \notin ItemRaises)
              => /\ calls[i + 1].files = calls[i].files
                 /\ calls[i].output_path \in calls[i + 1].files

\* C12 happens: the same file processed twice, both calls writing
C12_Witness ==
    /\ Len(calls) = 2
    /\ calls[1].source = calls[2].source
    /\ calls[1].outcome = "ok" /\ calls[2].outcome = "ok"
    /\ outFiles = {calls[2].output_path}

\* the keys test_predict reads from a 200 response of /predict
\* (Test_Api.py lines 63-70): data['success'], data['count'],
\* data['detections'] and, of each detection, 'class_name' and 'confidence'
ClientReadsFields == {"success", "count", "detections"}
ClientReadsItemFields == {"class_name", "confidence"}

\* C13: every 200 response of POST /predict carries all the fields the
\* client test reads: success, count and detections, and class_name and
\* confidence in each detection.
C13_PredictResponseHasClientFields ==
    \A i \in DOMAIN responses :
        (responses[i].endpoint = "/predict" /\ responses[i].status = 200)
            => /\ ClientReadsFields \subseteq responses[i].fields
               /\ responses[i].boxes > 0
                     => ClientReadsItemFields \subseteq responses[i].itemFields

\* C14: in one batch run two different enumerated files never get the same
\* output path, also when they differ only in extension.  (Stated where
\* Path.glob matches case-sensitively.)
C14_DistinctInputsDistinctOutputs ==
    (mode = "batch" /\ caseSensitive)
        => /\ \A i, j \in DOMAIN image_files :
                 image_files[i] # image_files[j]
                     => OutputName(image_files[i]) # OutputName(image_files[j])
           /\ \A i, j \in DOMAIN results_list :
                 results_list[i].image # results_list[j].image
                     => results_list[i].output # results_list[j].output

====
